---- MODULE Spec2Model ----
(***************************************************************************)
(* neobeach/core: the Controller / Router / Server composition engine and *)
(* the response facade, as a state machine.                                *)
(*                                                                         *)
(* JavaScript values are records with a `type` field (what typeof gives);  *)
(* objects carry a `class` (what instanceof / Array.isArray look at).      *)
(* A string is the sequence of its characters, so '' is <<>> and a path is *)
(* matched character by character the way the Express router matches it.   *)
(***************************************************************************)
EXTENDS Integers, Sequences, FiniteSets, TLC

VARIABLES controllers, routers, app, err, env, res, listening, assembled, inflight,
          runtime

vars == <<controllers, routers, app, err, env, res, listening, assembled, inflight,
         runtime>>

-----------------------------------------------------------------------------
(* Bounds of the model *)

MaxRoutes == 2

MaxStored == 1

MaxBindings == 2

MaxMounts == 3

-----------------------------------------------------------------------------
(* JavaScript values *)

Str(cs) == [type |-> "string", chars |-> cs]

Undefined == [type |-> "undefined"]

Fn(id) == [type |-> "function", id |-> id]

Arr(items) == [type |-> "object", class |-> "Array", items |-> items]

Instance(class, id) == [type |-> "object", class |-> class, id |-> id]

typeof(v) == v.type

isArray(v) == v.type = "object" /\ v.class = "Array"

instanceof(v, class) == v.type = "object" /\ v.class = class

-----------------------------------------------------------------------------
(* Error messages thrown by the code *)

EMethod == "Missing method string!"

EPath == "Missing path string!"

EHandler == "Missing handler function!"

EMiddlewares == "Missing middleware array!"

EControllerName == "A Controller must be named."

ERouterName == "A Router must be named."

ERoutePath == "Route path is not a string!"

ERouteMiddlewares == "Missing middleware array or invalid middleware array!"

ENotRouter == "Class is not an instance of '@neobeach/core/Router'!"

ENotController == "Class is not an instance of '@neobeach/core/Controller'!"

EUse == "TypeError: argument handler must be a function"

EStatus == "isn't a valid status code!"

NoError == "none"

-----------------------------------------------------------------------------
(* Paths, methods and the other inputs the operations are called with *)

Root == <<"/">>

PA == <<"/", "a">>

PAB == <<"/", "a", "/", "b">>

PX == <<"/", "x">>

Blank == <<>>

Methods == {"get", "post", "put", "patch", "delete", "copy", "head",
            "options", "purge", "lock", "unlock"}

CtrlIds == {"c1"}

RouterIds == {"r1", "r2"}

\* middleware functions: of a controller route (m), of a binding (g), global (a)
RouteMws == {"m1", "m2"}

BindingMws == {"g1", "g2"}

GlobalMws == {"a1", "a2"}

\* the middlewares of the libraries the include operations mount
LibraryMws == {"helmet", "json", "text", "urlencoded", "multer"}

MwIds == RouteMws \cup BindingMws \cup GlobalMws \cup LibraryMws \cup {"gx"}

-----------------------------------------------------------------------------
(* The Express router the code registers with: a stack of layers, matched  *)
(* in order.  router.use(path, fn) makes a layer that matches the path as  *)
(* a prefix, for every method; router[method](path, fn) makes a route that *)
(* matches the whole path and one method.                                  *)

IsPrefix(s, t) == Len(s) <= Len(t) /\ SubSeq(t, 1, Len(s)) = s

\* a layer made by use(path, ...): '/' matches everything, any other path
\* matches itself and everything below it
UseMatch(lp, p) ==
    \/ lp = Root
    \/ /\ IsPrefix(lp, p)
       /\ (Len(p) = Len(lp) \/ p[Len(lp) + 1] = "/")

\* what a use-layer leaves of the request path for the router mounted on it
StripPrefix(lp, p) ==
    LET rest == IF lp = Root THEN p ELSE SubSeq(p, Len(lp) + 1, Len(p))
    IN  IF rest = <<>> THEN Root ELSE rest

\* a route made by router[method](path, ...): the whole path, with or
\* without a trailing slash
RouteMatch(lp, p) == p = lp \/ p = lp \o Root

\* a route handles its own method; a get route also answers head requests
HandlesMethod(routeMethod, reqMethod) ==
    \/ routeMethod = reqMethod
    \/ reqMethod = "head" /\ routeMethod = "get"

-----------------------------------------------------------------------------
(* Controller  (src/src/Controller.js) *)

\* the instance fields before the constructor body runs
NoController == [live |-> FALSE, name |-> Str(<<>>), routes |-> <<>>, router |-> <<>>]

\* a layer of an Express router: kind "use" (a middleware, any method) or
\* "route" (a handler for one method); facade tells whether fn is called with
\* the response facade instead of the transport response
Layer(kind, method, path, fn, facade) ==
    [kind |-> kind, method |-> method, path |-> path, fn |-> fn, facade |-> facade]

\* the constructor's test for a missing name
ControllerNameMissing(name) == typeof(name) # "string" /\ name # Str(<<>>)

\* new Controller(name)
Controller(c, name) ==
    /\ ~controllers[c].live
    /\ IF ControllerNameMissing(name)
       THEN /\ err' = EControllerName
            /\ UNCHANGED controllers
       ELSE /\ controllers' = [controllers EXCEPT ![c] =
                                  [NoController EXCEPT !.live = TRUE, !.name = name]]
            /\ err' = NoError
    /\ UNCHANGED <<routers, app, env, res, listening, assembled, inflight, runtime>>

\* #addMiddleware: this.router.use(path, middleware)
addMiddleware(stack, path, middleware) ==
    Append(stack, Layer("use", "*", path.chars, middleware, FALSE))

\* #addRoute: this.router[method](path, (req, res) => handler(req, this.#response(res)))
addRoute(stack, method, path, handler) ==
    Append(stack, Layer("route", method, path.chars, handler, TRUE))

\* middlewares.forEach(... #addMiddleware ...): Express's use() throws on an
\* element that is not a function, after the earlier elements were mounted
RECURSIVE forEachMiddleware(_, _, _)
forEachMiddleware(stack, path, items) ==
    IF items = <<>> THEN [stack |-> stack, thrown |-> FALSE]
    ELSE IF typeof(Head(items)) # "function" THEN [stack |-> stack, thrown |-> TRUE]
    ELSE forEachMiddleware(addMiddleware(stack, path, Head(items)), path, Tail(items))

\* the entry #add pushes on this.routes
RouteEntry(method, path, handler, middlewares) ==
    [path |-> path, method |-> method, handler |-> handler, middlewares |-> middlewares]

\* a variant of #add without the handler check
addAnyHandler(c, method, path, handler, middlewares) ==
    /\ controllers[c].live
    /\ IF typeof(path) # "string" THEN
            err' = EPath /\ UNCHANGED controllers
       ELSE IF ~isArray(middlewares) THEN
            err' = EMiddlewares /\ UNCHANGED controllers
       ELSE /\ controllers' = [controllers EXCEPT
                    ![c].routes = Append(@, RouteEntry(method, path, handler, middlewares))]
            /\ err' = NoError
    /\ UNCHANGED <<routers, app, env, res, listening, assembled, inflight, runtime>>

\* a variant of #add that also refuses the empty path
addNoBlankPath(c, method, path, handler, middlewares) ==
    /\ controllers[c].live
    /\ IF typeof(path) # "string" \/ path = Str(<<>>) THEN
            err' = EPath /\ UNCHANGED controllers
       ELSE IF typeof(handler) # "function" THEN
            err' = EHandler /\ UNCHANGED controllers
       ELSE IF ~isArray(middlewares) THEN
            err' = EMiddlewares /\ UNCHANGED controllers
       ELSE /\ controllers' = [controllers EXCEPT
                    ![c].routes = Append(@, RouteEntry(method, path, handler, middlewares))]
            /\ err' = NoError
    /\ UNCHANGED <<routers, app, env, res, listening, assembled, inflight, runtime>>

\* a variant of #add that refuses a method and path it already holds
addOnce(c, method, path, handler, middlewares) ==
    /\ controllers[c].live
    /\ IF typeof(path) # "string" THEN
            err' = EPath /\ UNCHANGED controllers
       ELSE IF typeof(handler) # "function" THEN
            err' = EHandler /\ UNCHANGED controllers
       ELSE IF ~isArray(middlewares) THEN
            err' = EMiddlewares /\ UNCHANGED controllers
       ELSE IF \E i \in DOMAIN controllers[c].routes :
                   /\ controllers[c].routes[i].method = method
                   /\ controllers[c].routes[i].path = path THEN
            err' = EPath /\ UNCHANGED controllers
       ELSE LET mounted == forEachMiddleware(controllers[c].router, path, middlewares.items)
            IN  IF mounted.thrown
                THEN /\ controllers' = [controllers EXCEPT ![c].router = mounted.stack]
                     /\ err' = EUse
                ELSE /\ controllers' = [controllers EXCEPT
                            ![c].router = addRoute(mounted.stack, method, path, handler),
                            ![c].routes = Append(@, RouteEntry(method, path, handler, middlewares))]
                     /\ err' = NoError
    /\ UNCHANGED <<routers, app, env, res, listening, assembled, inflight, runtime>>

\* #add(method, path, handler, middlewares)
add(c, method, path, handler, middlewares) ==
    /\ controllers[c].live
    /\ IF typeof(Str(<<method>>)) # "string" THEN
            err' = EMethod /\ UNCHANGED controllers
       ELSE IF typeof(path) # "string" THEN
            err' = EPath /\ UNCHANGED controllers
       ELSE IF typeof(handler) # "function" THEN
            err' = EHandler /\ UNCHANGED controllers
       ELSE IF ~isArray(middlewares) THEN
            err' = EMiddlewares /\ UNCHANGED controllers
       ELSE LET mounted == forEachMiddleware(controllers[c].router, path, middlewares.items)
            IN  IF mounted.thrown
                THEN /\ controllers' = [controllers EXCEPT ![c].router = mounted.stack]
                     /\ err' = EUse
                ELSE /\ controllers' = [controllers EXCEPT
                            ![c].router = addRoute(mounted.stack, method, path, handler),
                            ![c].routes = Append(@, RouteEntry(method, path, handler, middlewares))]
                     /\ err' = NoError
    /\ UNCHANGED <<routers, app, env, res, listening, assembled, inflight, runtime>>

get(c, path, middlewares, handler) == add(c, "get", path, handler, middlewares)

post(c, path, middlewares, handler) == add(c, "post", path, handler, middlewares)

put(c, path, middlewares, handler) == add(c, "put", path, handler, middlewares)

patch(c, path, middlewares, handler) == add(c, "patch", path, handler, middlewares)

delete(c, path, middlewares, handler) == add(c, "delete", path, handler, middlewares)

copy(c, path, middlewares, handler) == add(c, "copy", path, handler, middlewares)

head(c, path, middlewares, handler) == add(c, "head", path, handler, middlewares)

options(c, path, middlewares, handler) == add(c, "options", path, handler, middlewares)

purge(c, path, middlewares, handler) == add(c, "purge", path, handler, middlewares)

lock(c, path, middlewares, handler) == add(c, "lock", path, handler, middlewares)

unlock(c, path, middlewares, handler) == add(c, "unlock", path, handler, middlewares)

\* any of the 11 method operations
MethodOp(c, path, middlewares, handler) ==
    \/ get(c, path, middlewares, handler)
    \/ post(c, path, middlewares, handler)
    \/ put(c, path, middlewares, handler)
    \/ patch(c, path, middlewares, handler)
    \/ delete(c, path, middlewares, handler)
    \/ copy(c, path, middlewares, handler)
    \/ head(c, path, middlewares, handler)
    \/ options(c, path, middlewares, handler)
    \/ purge(c, path, middlewares, handler)
    \/ lock(c, path, middlewares, handler)
    \/ unlock(c, path, middlewares, handler)

-----------------------------------------------------------------------------
(* Router  (src/src/Router.js) *)

\* the instance fields before the constructor body runs
NoRouter == [live |-> FALSE, name |-> Str(<<>>), routes |-> <<>>]

\* the constructor's test for a missing name
RouterNameMissing(name) == typeof(name) # "string" /\ name # Str(<<>>)

\* new Router(name)
Router(r, name) ==
    /\ ~routers[r].live
    /\ IF RouterNameMissing(name)
       THEN /\ err' = ERouterName
            /\ UNCHANGED routers
       ELSE /\ routers' = [routers EXCEPT ![r] =
                              [NoRouter EXCEPT !.live = TRUE, !.name = name]]
            /\ err' = NoError
    /\ UNCHANGED <<controllers, app, env, res, listening, assembled, inflight, runtime>>

\* the entry Router.add pushes on this.routes
Binding(path, controller, middlewares) ==
    [path |-> path, controller |-> controller, middlewares |-> middlewares]

\* the default parameter value: middlewares = []
DefaultMiddlewares(middlewares) ==
    IF typeof(middlewares) = "undefined" THEN Arr(<<>>) ELSE middlewares

\* a variant of Router.add that puts the binding in front of the list
Router_addFirst(r, path, controller, middlewares) ==
    /\ routers[r].live
    /\ IF typeof(path) # "string" THEN
            err' = ERoutePath /\ UNCHANGED routers
       ELSE IF ~isArray(DefaultMiddlewares(middlewares)) THEN
            err' = ERouteMiddlewares /\ UNCHANGED routers
       ELSE /\ routers' = [routers EXCEPT ![r].routes =
                   <<Binding(path, controller, DefaultMiddlewares(middlewares))>> \o @]
            /\ err' = NoError
    /\ UNCHANGED <<controllers, app, env, res, listening, assembled, inflight, runtime>>

\* Router.add(path, controller, middlewares = [])
Router_add(r, path, controller, middlewares) ==
    /\ routers[r].live
    /\ IF typeof(path) # "string" THEN
            err' = ERoutePath /\ UNCHANGED routers
       ELSE IF ~isArray(DefaultMiddlewares(middlewares)) THEN
            err' = ERouteMiddlewares /\ UNCHANGED routers
       ELSE /\ routers' = [routers EXCEPT ![r].routes =
                   Append(@, Binding(path, controller, DefaultMiddlewares(middlewares)))]
            /\ err' = NoError
    /\ UNCHANGED <<controllers, app, env, res, listening, assembled, inflight, runtime>>

-----------------------------------------------------------------------------
(* Dispatch of one request through a router's stack.  nb tells, for each    *)
(* middleware function, whether it calls next(); a wrapped handler is given *)
(* no next, so the chain ends with it.  The result is the sequence of       *)
(* invocations, and whether the request was answered or left the router.    *)

Invocation(k, i, L) ==
    [app |-> k, layer |-> i, kind |-> L.kind, fn |-> L.fn.id, facade |-> L.facade]

\* a variant in which a handler is given next() and calls it
RECURSIVE RunRouterHandlerNext(_, _, _, _, _, _)
RunRouterHandlerNext(stack, i, method, path, nb, k) ==
    IF i > Len(stack) THEN [trace |-> <<>>, done |-> FALSE]
    ELSE LET L == stack[i]
             r == RunRouterHandlerNext(stack, i + 1, method, path, nb, k)
         IN  IF L.kind = "use" /\ UseMatch(L.path, path)
             THEN IF nb[L.fn.id]
                  THEN [trace |-> <<Invocation(k, i, L)>> \o r.trace, done |-> r.done]
                  ELSE [trace |-> <<Invocation(k, i, L)>>, done |-> TRUE]
             ELSE IF /\ L.kind = "route"
                     /\ RouteMatch(L.path, path)
                     /\ HandlesMethod(L.method, method)
             THEN [trace |-> <<Invocation(k, i, L)>> \o r.trace, done |-> r.done]
             ELSE r

RECURSIVE RunRouter(_, _, _, _, _, _)
RunRouter(stack, i, method, path, nb, k) ==
    IF i > Len(stack) THEN [trace |-> <<>>, done |-> FALSE]
    ELSE LET L == stack[i]
         IN  IF L.kind = "use" /\ UseMatch(L.path, path)
             THEN IF nb[L.fn.id]
                  THEN LET r == RunRouter(stack, i + 1, method, path, nb, k)
                       IN  [trace |-> <<Invocation(k, i, L)>> \o r.trace, done |-> r.done]
                  ELSE [trace |-> <<Invocation(k, i, L)>>, done |-> TRUE]
             ELSE IF /\ L.kind = "route"
                     /\ RouteMatch(L.path, path)
                     /\ HandlesMethod(L.method, method)
             THEN [trace |-> <<Invocation(k, i, L)>>, done |-> TRUE]
             ELSE RunRouter(stack, i + 1, method, path, nb, k)

\* a request served by a controller's own router
ControllerTrace(c, method, path, nb) ==
    RunRouter(controllers[c].router, 1, method, path, nb, 0).trace

-----------------------------------------------------------------------------
(* Server  (src/src/Server.js).  app is the Express application's stack: a  *)
(* "use" layer holds a middleware function, a "mount" layer holds the       *)
(* Controller whose router was mounted (by reference: the router is looked  *)
(* up when a request arrives).  origin names the Router entry the layer was *)
(* mounted from.                                                            *)

NoOrigin == [router |-> "", index |-> 0]

Origin(r, i) == [router |-> r, index |-> i]

AppLayer(kind, path, fn, origin) ==
    [kind |-> kind, path |-> path, fn |-> fn, origin |-> origin]

\* the three mounts of the constructor: load balancer probe, library
\* headers, health check
Constructed ==
    << AppLayer("use", Root, Fn("googleHC"), NoOrigin),
       AppLayer("use", Root, Fn("headers"), NoOrigin),
       AppLayer("use", Root, Fn("health"), NoOrigin) >>

Builtins == {"googleHC", "headers", "health"}

ProbeAgent == "GoogleHC/1.0"

HealthUrl == <<"/", "_", "h", "e", "a", "l", "t", "h">>

\* a variant of use() that puts the middleware in front of the stack
useGlobalFirst(stack, mw) == <<AppLayer("use", Root, mw, NoOrigin)>> \o stack

\* this.#app.use(mw)
useGlobal(stack, mw) == Append(stack, AppLayer("use", Root, mw, NoOrigin))

\* middlewares.forEach(mw => this.#app.use(mw))
RECURSIVE forEachGlobal(_, _)
forEachGlobal(stack, items) ==
    IF items = <<>> THEN [stack |-> stack, err |-> NoError]
    ELSE IF typeof(Head(items)) # "function" THEN [stack |-> stack, err |-> EUse]
    ELSE forEachGlobal(useGlobal(stack, Head(items)), Tail(items))

\* loadMiddlewares(middlewares)
loadMiddlewares(middlewares) ==
    LET r == forEachGlobal(app, middlewares.items)
    IN  /\ app' = r.stack
        /\ err' = r.err
        /\ UNCHANGED <<controllers, routers, env, res, listening, assembled, inflight, runtime>>

\* for (const mw of route.middlewares) this.#app.use(route.path, mw)
RECURSIVE forOfMiddlewares(_, _, _, _)
forOfMiddlewares(stack, path, items, origin) ==
    IF items = <<>> THEN [stack |-> stack, err |-> NoError]
    ELSE IF typeof(Head(items)) # "function" THEN [stack |-> stack, err |-> EUse]
    ELSE forOfMiddlewares(Append(stack, AppLayer("use", path, Head(items), origin)),
                          path, Tail(items), origin)

\* a variant that mounts the controller in front of the stack
useControllerFirst(stack, path, controller, origin) ==
    <<AppLayer("mount", path, controller, origin)>> \o stack

\* this.#app.use(route.path, route.controller.getRouter(router.name))
useController(stack, path, controller, origin) ==
    Append(stack, AppLayer("mount", path, controller, origin))

\* a variant of the body that mounts the controller before the middlewares
mountRouteControllerFirst(stack, route, origin) ==
    IF instanceof(route.controller, "Controller")
    THEN forOfMiddlewares(useController(stack, route.path.chars, route.controller, origin),
                          route.path.chars, route.middlewares.items, origin)
    ELSE [stack |-> stack, err |-> ENotController]

\* a variant of the body that checks the controller after the middlewares
mountRouteLateCheck(stack, route, origin) ==
    LET r == forOfMiddlewares(stack, route.path.chars, route.middlewares.items, origin)
    IN  IF r.err # NoError THEN r
        ELSE IF instanceof(route.controller, "Controller")
        THEN [stack |-> useController(r.stack, route.path.chars, route.controller, origin),
              err |-> NoError]
        ELSE [stack |-> r.stack, err |-> ENotController]

\* the body of routes.forEach(route => ...)
mountRoute(stack, route, origin) ==
    IF instanceof(route.controller, "Controller")
    THEN LET r == forOfMiddlewares(stack, route.path.chars, route.middlewares.items, origin)
         IN  IF r.err # NoError THEN r
             ELSE [stack |-> useController(r.stack, route.path.chars, route.controller, origin),
                   err |-> NoError]
    ELSE [stack |-> stack, err |-> ENotController]

RECURSIVE forEachRoute(_, _, _, _)
forEachRoute(stack, id, routes, i) ==
    IF i > Len(routes) THEN [stack |-> stack, err |-> NoError]
    ELSE LET r == mountRoute(stack, routes[i], Origin(id, i))
         IN  IF r.err # NoError THEN r
             ELSE forEachRoute(r.stack, id, routes, i + 1)

\* router.routes of a list element
RoutesOf(router) ==
    IF router.class = "Router" THEN routers[router.id].routes ELSE router.routes

\* a variant of the body that takes any object with a routes field
mountRouterAnyObject(stack, router) ==
    forEachRoute(stack, router.id, RoutesOf(router), 1)

\* the body of routers.forEach(router => ...)
mountRouter(stack, router) ==
    IF instanceof(router, "Router")
    THEN forEachRoute(stack, router.id, RoutesOf(router), 1)
    ELSE [stack |-> stack, err |-> ENotRouter]

RECURSIVE forEachRouter(_, _)
forEachRouter(stack, list) ==
    IF list = <<>> THEN [stack |-> stack, err |-> NoError]
    ELSE LET r == mountRouter(stack, Head(list))
         IN  IF r.err # NoError THEN r
             ELSE forEachRouter(r.stack, Tail(list))

\* a variant of getRouter that registers the controller's layers again
getRouterCompiling(controller, routerName) ==
    [value |-> controller.router \o controller.router,
     self  |-> [controller EXCEPT !.router = @ \o @]]

\* getRouter(routerName): the value returned, this.router, and the
\* controller after the call
getRouter(controller, routerName) ==
    [value |-> controller.router, self |-> controller]

\* router.name of the list element a layer was mounted from
RouterNameOf(origin) ==
    IF origin.router \in RouterIds THEN routers[origin.router].name ELSE Undefined

\* the controllers after the getRouter calls that mounted the given layers
RECURSIVE getRouters(_, _)
getRouters(ctrls, layers) ==
    IF layers = <<>> THEN ctrls
    ELSE IF Head(layers).kind = "mount"
    THEN getRouters([ctrls EXCEPT ![Head(layers).fn.id] =
                        getRouter(@, RouterNameOf(Head(layers).origin)).self],
                    Tail(layers))
    ELSE getRouters(ctrls, Tail(layers))

\* loadRouters(routers)
loadRouters(list) ==
    LET r == forEachRouter(app, list.items)
    IN  /\ app' = r.stack
        /\ err' = r.err
        /\ controllers' = getRouters(controllers, SubSeq(r.stack, Len(app) + 1, Len(r.stack)))
        /\ UNCHANGED <<routers, env, res, listening, assembled, inflight, runtime>>

\* includeDefaultBodyParsers(): four this.#app.use(...) calls
includeDefaultBodyParsers ==
    /\ app' = useGlobal(useGlobal(useGlobal(useGlobal(app,
                  Fn("json")), Fn("text")), Fn("urlencoded")), Fn("multer"))
    /\ err' = NoError
    /\ UNCHANGED <<controllers, routers, env, res, listening, assembled, inflight, runtime>>

\* includeDefaultSecurityHeaders(): this.#app.use(helmet())
includeDefaultSecurityHeaders ==
    /\ app' = useGlobal(app, Fn("helmet"))
    /\ err' = NoError
    /\ UNCHANGED <<controllers, routers, env, res, listening, assembled, inflight, runtime>>

\* run(): this.#app.listen(port, host, ...); assembled records the stack the
\* listener was started with
run ==
    /\ ~listening
    /\ listening' = TRUE
    /\ assembled' = app
    /\ err' = NoError
    /\ UNCHANGED <<controllers, routers, app, env, res, inflight, runtime>>

-----------------------------------------------------------------------------
(* Dispatch of one request through the application's stack *)

Request(method, url, agent) ==
    [method |-> method, url |-> url, query |-> <<>>, agent |-> agent]

\* a request with a query string
QueryRequest(method, url, query, agent) ==
    [method |-> method, url |-> url, query |-> query, agent |-> agent]

\* req.originalUrl: the path and, when there is one, '?' and the query string
OriginalUrl(req) ==
    IF req.query = <<>> THEN req.url ELSE req.url \o <<"?">> \o req.query

\* a variant in which the probe responder always calls next()
CallsNextPastProbe(id, req, nb) ==
    CASE id = "googleHC" -> TRUE
      [] id = "headers"  -> TRUE
      [] id = "health"   -> OriginalUrl(req) # HealthUrl
      [] OTHER           -> nb[id]

\* a variant in which the health check compares the path without the query
CallsNextHealthByPath(id, req, nb) ==
    CASE id = "googleHC" -> req.agent # ProbeAgent
      [] id = "headers"  -> TRUE
      [] id = "health"   -> req.url # HealthUrl
      [] OTHER           -> nb[id]

\* whether a function of the application's stack calls next() for a request
CallsNext(id, req, nb) ==
    CASE id = "googleHC" -> req.agent # ProbeAgent
      [] id = "headers"  -> TRUE
      [] id = "health"   -> OriginalUrl(req) # HealthUrl
      [] OTHER           -> nb[id]

RECURSIVE RunApp(_, _, _, _)
RunApp(stack, i, req, nb) ==
    IF i > Len(stack) THEN [trace |-> <<>>, done |-> FALSE]
    ELSE LET L == stack[i]
             rest == RunApp(stack, i + 1, req, nb)
         IN  IF ~UseMatch(L.path, req.url) THEN rest
             ELSE IF L.kind = "use"
             THEN LET ev == [app |-> i, layer |-> 0, kind |-> "use", fn |-> L.fn.id, facade |-> FALSE]
                  IN  IF CallsNext(L.fn.id, req, nb)
                      THEN [trace |-> <<ev>> \o rest.trace, done |-> rest.done]
                      ELSE [trace |-> <<ev>>, done |-> TRUE]
             ELSE IF ~instanceof(L.fn, "Controller") THEN rest
             ELSE LET sub == RunRouter(controllers[L.fn.id].router, 1, req.method,
                                       StripPrefix(L.path, req.url), nb, i)
                  IN  IF sub.done THEN sub
                      ELSE [trace |-> sub.trace \o rest.trace, done |-> rest.done]

\* the invocations a request causes, in order
Trace(req, nb) == RunApp(app, 1, req, nb).trace

-----------------------------------------------------------------------------
(* Status  (src/src/Status.js) and the response facade's json              *)
(* (src/src/Controller.js, #response)                                      *)

Num(n) == [type |-> "number", n |-> n]

Obj(keys, vals) == [type |-> "object", class |-> "Object", keys |-> keys, vals |-> vals]

\* the status table
StatusCodes == {1000, 1010, 1011, 1012, 1020, 1030, 5000, 5010, 5011, 5012,
                5013, 5020, 5030, 5031, 5032, 5033, 5034, 5035, 9999}

StatusText(n) ==
    CASE n = 1000 -> "Request completed"
      [] n = 1010 -> "Account activated"
      [] n = 1011 -> "Login successful"
      [] n = 1012 -> "Password reset successful"
      [] n = 1020 -> "Email has been send"
      [] n = 1030 -> "Form has been submitted"
      [] n = 5000 -> "Server error"
      [] n = 5010 -> "Account not found"
      [] n = 5011 -> "Account not activated"
      [] n = 5012 -> "Login incorrect"
      [] n = 5013 -> "Email/Username not found"
      [] n = 5020 -> "Error sending email"
      [] n = 5030 -> "Error submitting form"
      [] n = 5031 -> "Missing fields"
      [] n = 5032 -> "Invalid fields"
      [] n = 5033 -> "File to large"
      [] n = 5034 -> "Invalid file type"
      [] n = 5035 -> "CSRF validation failed"
      [] n = 9999 -> "Generic Error"

RECURSIVE Join(_)
Join(cs) == IF cs = <<>> THEN "" ELSE Head(cs) \o Join(Tail(cs))

\* the property key status[code] looks up: the code converted to a string
PropertyKey(code) ==
    CASE typeof(code) = "number" -> ToString(code.n)
      [] typeof(code) = "string" -> Join(code.chars)
      [] typeof(code) = "undefined" -> "undefined"
      [] OTHER -> "null"

\* the keys the table, an object literal, inherits from Object.prototype
InheritedKeys ==
    {"constructor", "toString", "toLocaleString", "valueOf", "hasOwnProperty",
     "isPrototypeOf", "propertyIsEnumerable", "__proto__"}

\* typeof status[code] === "undefined": neither the table nor its prototype
\* has such a key
StatusUnknown(code) ==
    PropertyKey(code) \notin {ToString(n) : n \in StatusCodes} \cup InheritedKeys

\* status[code]: the text of an own key, the function or object of an
\* inherited one
StatusLookup(code) ==
    IF PropertyKey(code) \in InheritedKeys
    THEN IF PropertyKey(code) = "__proto__"
         THEN Obj(<<>>, <<>>)
         ELSE Fn(PropertyKey(code))
    ELSE Str(<<StatusText(CHOOSE n \in StatusCodes : ToString(n) = PropertyKey(code))>>)

\* a variant of Status that returns the text in every environment
StatusWithText(code, e) ==
    IF StatusUnknown(code) THEN [thrown |-> TRUE, value |-> Undefined]
    ELSE [thrown |-> FALSE,
          value |-> Obj(<<"code", "message">>, <<code, StatusLookup(code)>>)]

\* Status(code) when NODE_ENV is e: the {code, message} object, or a throw
Status(code, e) ==
    IF StatusUnknown(code) THEN [thrown |-> TRUE, value |-> Undefined]
    ELSE IF e # "production"
    THEN [thrown |-> FALSE,
          value |-> Obj(<<"code", "message">>, <<code, StatusLookup(code)>>)]
    ELSE [thrown |-> FALSE,
          value |-> Obj(<<"code", "message">>, <<code, Str(<<>>)>>)]

\* JSON.stringify, as the sequence of the text's tokens: a key whose value is
\* undefined or a function is left out
RECURSIVE stringify(_)
RECURSIVE Members(_, _, _)
Members(keys, vals, first) ==
    IF keys = <<>> THEN <<>>
    ELSE IF typeof(Head(vals)) \in {"undefined", "function"}
         THEN Members(Tail(keys), Tail(vals), first)
    ELSE (IF first THEN <<>> ELSE <<",">>)
         \o <<"\"", Head(keys), "\"", ":">> \o stringify(Head(vals))
         \o Members(Tail(keys), Tail(vals), FALSE)

stringify(v) ==
    CASE typeof(v) = "number" -> <<ToString(v.n)>>
      [] typeof(v) = "string" -> <<"\"">> \o v.chars \o <<"\"">>
      [] typeof(v) = "object" /\ v.class = "null" -> <<"null">>
      [] typeof(v) = "object" /\ v.class = "Object" ->
            <<"{">> \o Members(v.keys, v.vals, TRUE) \o <<"}">>
      [] OTHER -> <<>>

\* the transport response of a request that has just arrived
FreshResponse == [headers |-> {}, status |-> 0, body |-> <<>>, sent |-> FALSE]

\* the requests a process may have in flight at once
FlightIds == {"q1", "q2"}

\* no request has arrived yet
NoFlights ==
    [q \in FlightIds |-> [pc |-> "none", res |-> FreshResponse, facade |-> ""]]

\* res.set(name, value)
set(r, name, value) ==
    [r EXCEPT !.headers = {h \in @ : h[1] # name} \cup {<<name, value>>}]

\* res.status(code)
status(r, code) == [r EXCEPT !.status = code]

\* res.send(body)
send(r, body) ==
    [r EXCEPT !.body = body, !.sent = TRUE, !.status = IF @ = 0 THEN 200 ELSE @]

\* the facade's json: (code, json) => { res.set(...); res.status(200).send(
\* JSON.stringify({status: Status(code), data: json})) }: res.set and
\* res.status(200) have run when the argument of send is evaluated and
\* Status(code) throws
jsonResponse(r, code, json, e) ==
    LET typed == set(r, "Content-Type", "application/json")
        st == Status(code, e)
    IN  IF st.thrown THEN [res |-> status(typed, 200), err |-> EStatus]
        ELSE [res |-> send(status(typed, 200),
                           stringify(Obj(<<"status", "data">>, <<st.value, json>>))),
              err |-> NoError]

\* a handler calls res.json(code, payload) on the facade of its request
json(code, payload) ==
    /\ ~res.sent
    /\ LET r == jsonResponse(res, code, payload, env)
       IN  res' = r.res /\ err' = r.err
    /\ UNCHANGED <<controllers, routers, app, env, listening, assembled, inflight, runtime>>

\* res.set('Content-Type', type); res.status(code).send(body)
reply(r, type, code, body) == send(status(set(r, "Content-Type", type), code), body)

\* a handler's call of a facade operation on the response of its request
Answer(r) ==
    /\ ~res.sent
    /\ res' = r
    /\ err' = NoError
    /\ UNCHANGED <<controllers, routers, app, env, listening, assembled, inflight, runtime>>

\* the facade's text: (text) => { res.set('Content-Type', 'text/plain'); res.status(200).send(text) }
text(body) == Answer(reply(res, "text/plain", 200, body.chars))

\* the facade's html: (html) => { res.set('Content-Type', 'text/html'); res.status(200).send(html) }
html(body) == Answer(reply(res, "text/html", 200, body.chars))

\* the facade's xml: (xml) => { res.set('Content-Type', 'application/xml'); res.status(200).send(xml) }
xml(body) == Answer(reply(res, "application/xml", 200, body.chars))

\* the facade's badRequest: res.set('Content-Type', 'text/plain'); res.status(400).send('Bad Request')
badRequest == Answer(reply(res, "text/plain", 400, <<"Bad Request">>))

\* the facade's unauthorized: res.set('Content-Type', 'text/plain'); res.status(401).send('Unauthorized')
unauthorized == Answer(reply(res, "text/plain", 401, <<"Unauthorized">>))

\* the facade's paymentRequired: res.set('Content-Type', 'text/plain'); res.status(402).send('Payment Required')
paymentRequired == Answer(reply(res, "text/plain", 402, <<"Payment Required">>))

\* the facade's forbidden: res.set('Content-Type', 'text/plain'); res.status(403).send('Forbidden')
forbidden == Answer(reply(res, "text/plain", 403, <<"Forbidden">>))

\* the facade's notFound: res.set('Content-Type', 'text/plain'); res.status(404).send('Not Found')
notFound == Answer(reply(res, "text/plain", 404, <<"Not Found">>))

\* the facade's conflict: res.set('Content-Type', 'text/plain'); res.status(409).send('Conflict')
conflict == Answer(reply(res, "text/plain", 409, <<"Conflict">>))

\* a variant of tooManyRequests that answers 400
tooManyRequestsAs400 == Answer(reply(res, "text/plain", 400, <<"Too Many Requests">>))

\* the facade's tooManyRequests: res.set('Content-Type', 'text/plain'); res.status(429).send('Too Many Requests')
tooManyRequests == Answer(reply(res, "text/plain", 429, <<"Too Many Requests">>))

\* a variant of created that ends the response without a body
createdNoBody == Answer(send(status(res, 201), <<>>))

\* the facade's created: res.sendStatus(201) sends the status with its reason
\* phrase as text
created == Answer(reply(res, "text/plain", 201, <<"Created">>))

\* a variant of #response that wraps the response of the first request
responseOfFirst(q) == [res |-> "q1"]

\* #response(res): the facade made for the transport response of request q;
\* its operations close over that response
response(q) == [res |-> q]

\* the operation a handler ends its request with
TerminalOps == {"text", "notFound", "json"}

TerminalOp(r, op) ==
    CASE op = "text"     -> reply(r, "text/plain", 200, <<"h", "i">>)
      [] op = "notFound" -> reply(r, "text/plain", 404, <<"Not Found">>)
      [] op = "json"     -> jsonResponse(r, Num(1000), Obj(<<>>, <<>>), env).res

\* the route's wrapper: (req, res) => handler(req, this.#response(res))
Invoke(q) ==
    /\ inflight[q].pc = "none"
    /\ inflight' = [inflight EXCEPT ![q] =
                      [pc |-> "running", res |-> FreshResponse, facade |-> response(q).res]]
    /\ UNCHANGED <<controllers, routers, app, err, env, res, listening, assembled, runtime>>

\* the handler awaits
Suspend(q) ==
    /\ inflight[q].pc = "running"
    /\ inflight' = [inflight EXCEPT ![q].pc = "suspended"]
    /\ UNCHANGED <<controllers, routers, app, err, env, res, listening, assembled, runtime>>

\* the awaited promise settles
Resume(q) ==
    /\ inflight[q].pc = "suspended"
    /\ inflight' = [inflight EXCEPT ![q].pc = "running"]
    /\ UNCHANGED <<controllers, routers, app, err, env, res, listening, assembled, runtime>>

\* the handler of q calls a terminal operation of the facade it was given
Terminal(q, op) ==
    /\ inflight[q].pc = "running"
    /\ inflight' = [inflight EXCEPT ![inflight[q].facade].res = TerminalOp(@, op),
                                    ![q].pc = "answered"]
    /\ UNCHANGED <<controllers, routers, app, err, env, res, listening, assembled, runtime>>

\* the answered request leaves
Finish(q) ==
    /\ inflight[q].pc = "answered"
    /\ inflight' = [inflight EXCEPT ![q] = NoFlights[q]]
    /\ UNCHANGED <<controllers, routers, app, err, env, res, listening, assembled, runtime>>

\* a new request arrives: its handler gets a facade around a new response
Arrive ==
    /\ res.sent \/ err # NoError
    /\ res' = FreshResponse
    /\ err' = NoError
    /\ UNCHANGED <<controllers, routers, app, env, listening, assembled, inflight, runtime>>

-----------------------------------------------------------------------------
(* The response of the application to one request *)

\* "version" of package.json
CoreVersion == "2.3.8"

\* the vitals the health check reports: the values are the process's own
HealthBody ==
    stringify(Obj(<<"status", "host", "core", "load", "mem", "uptime">>,
                  <<Str(<<"UP">>), Str(<<"hostname">>), Str(<<CoreVersion>>),
                    Obj(<<>>, <<>>), Obj(<<>>, <<>>), Num(1)>>))

ProbeBody == <<"Hello Google">>

\* Express's res.json(obj): Content-Type application/json unless one is set
expressJson(r, body) ==
    send(IF \E h \in r.headers : h[1] = "Content-Type" THEN r
         ELSE set(r, "Content-Type", "application/json"), body)

\* what a user's middleware does when it does not call next(): it rejects
Rejected(r) == send(status(set(r, "Content-Type", "text/plain"), 401), <<"Unauthorized">>)

\* what a route's handler does: it answers through the facade's text()
Handled(r) == send(status(set(r, "Content-Type", "text/plain"), 200), <<"handled">>)

\* Express's answer when the stack is exhausted
NotFound(r) == send(status(set(r, "Content-Type", "text/html"), 404), <<"Cannot">>)

\* what one invocation of the trace does to the response
Effect(ev, req, nb, r) ==
    CASE ev.fn = "googleHC" /\ ev.layer = 0 ->
            IF req.agent = ProbeAgent THEN send(r, ProbeBody) ELSE r
      [] ev.fn = "headers" /\ ev.layer = 0 ->
            set(set(r, "X-Neo-Beach", "true"), "X-Neo-Beach-Core", CoreVersion)
      [] ev.fn = "health" /\ ev.layer = 0 ->
            IF OriginalUrl(req) = HealthUrl THEN expressJson(r, HealthBody) ELSE r
      [] ev.kind = "route" -> Handled(r)
      [] OTHER -> IF nb[ev.fn] THEN r ELSE Rejected(r)

RECURSIVE ApplyTrace(_, _, _, _)
ApplyTrace(tr, req, nb, r) ==
    IF tr = <<>> THEN r
    ELSE ApplyTrace(Tail(tr), req, nb, Effect(Head(tr), req, nb, r))

\* the response a request gets
Respond(req, nb) ==
    LET out == RunApp(app, 1, req, nb)
        r   == ApplyTrace(out.trace, req, nb, FreshResponse)
    IN  IF out.done THEN r ELSE NotFound(r)

-----------------------------------------------------------------------------
(* Runtime  (src/src/Runtime.js).  runtime is the process: where            *)
(* Runtime(sandbox) stands, what the process was started with (host), what *)
(* preflight did, what was logged and the exit code once it has exited.    *)

\* what a process is started with: SKIP_UPGRADE_CHECK, whether google.com
\* resolves, the major version of node, and what the registry answers
Host(skip, internet, node, registry, latest) ==
    [skip |-> skip, internet |-> internet, node |-> node,
     registry |-> registry, latest |-> latest]

\* a process in which Runtime has not been called
NoRuntime ==
    [pc |-> "loaded", host |-> Host("", FALSE, 14, 200, CoreVersion),
     hooks |-> FALSE, fetched |-> FALSE, warned |-> FALSE, log |-> {}, exit |-> -1]

nodeVersionRequirement == 14

ENodeVersion == "[NODE] Incorrect version running!"

EUnhandledRejection == "[RUNTIME] Unhandled Rejection found!:"

EUncaughtException == "[RUNTIME] Uncaught Exception found!:"

\* console.error / Logger.error of a line, then process.exit(code)
exit(rt, line, code) ==
    [rt EXCEPT !.log = @ \cup {line}, !.exit = code, !.pc = "exited"]

\* Runtime(sandbox), up to its first await: the two process.on(...) calls
Runtime ==
    /\ runtime.pc = "loaded"
    /\ runtime' = [runtime EXCEPT !.hooks = TRUE, !.pc = "preflight"]
    /\ UNCHANGED <<controllers, routers, app, err, env, res, listening, assembled, inflight>>

\* the upgrade check of preflight: if(internet) { fetch(...); if the registry
\* answers 200 and its latest version is not the installed one, warn }
upgradeCheck(rt) ==
    IF rt.host.internet
    THEN [rt EXCEPT !.fetched = TRUE,
                    !.warned = rt.host.registry = 200 /\ rt.host.latest # CoreVersion]
    ELSE rt

\* preflight(): the banner, the node version requirement, the upgrade check
preflight ==
    /\ runtime.pc = "preflight"
    /\ runtime' = IF runtime.host.node # nodeVersionRequirement
                  THEN exit(runtime, ENodeVersion, 1)
                  ELSE [upgradeCheck(runtime) EXCEPT !.pc = "sandbox"]
    /\ UNCHANGED <<controllers, routers, app, err, env, res, listening, assembled, inflight>>

\* sandbox(): the user's code starts
sandbox ==
    /\ runtime.pc = "sandbox"
    /\ runtime' = [runtime EXCEPT !.pc = "running"]
    /\ UNCHANGED <<controllers, routers, app, err, env, res, listening, assembled, inflight>>

\* process.on('unhandledRejection', ...): a promise nobody awaits was rejected
unhandledRejection ==
    /\ runtime.pc = "running" /\ runtime.hooks
    /\ \E q \in FlightIds : inflight[q].pc \in {"suspended", "answered"}
    /\ runtime' = exit(runtime, EUnhandledRejection, 1)
    /\ UNCHANGED <<controllers, routers, app, err, env, res, listening, assembled, inflight>>

\* process.on('uncaughtException', ...): a callback outside every request's
\* call stack (a timer, an event listener) threw
uncaughtException ==
    /\ runtime.pc = "running" /\ runtime.hooks
    /\ \E q \in FlightIds : inflight[q].pc \in {"suspended", "answered"}
    /\ runtime' = exit(runtime, EUncaughtException, 1)
    /\ UNCHANGED <<controllers, routers, app, err, env, res, listening, assembled, inflight>>

\* Express's answer to an error passed to next(): 500, and a line on the
\* console outside the test environment
ServerError(r) ==
    send(status(set(r, "Content-Type", "text/html"), 500), <<"Internal Server Error">>)

EExpress == "console.error(err.stack)"

\* the route's wrapper (req, res) => handler(...) runs inside Express's
\* layer, which catches what the call throws and what the promise it returns
\* is rejected with, and passes it to next(): the request is answered 500
\* and the process goes on
caught(q) ==
    /\ inflight' = [inflight EXCEPT ![q].res = ServerError(@), ![q].pc = "answered"]
    /\ runtime' = IF env = "test" THEN runtime
                  ELSE [runtime EXCEPT !.log = @ \cup {EExpress}]
    /\ UNCHANGED <<controllers, routers, app, err, env, res, listening, assembled>>

\* a handler or middleware throws while it runs
handlerThrows(q) ==
    /\ runtime.pc = "running"
    /\ inflight[q].pc = "running"
    /\ caught(q)

\* the promise a handler or middleware awaits is rejected and the handler
\* does not catch it: the promise the wrapper returned is rejected
handlerRejects(q) ==
    /\ runtime.pc = "running"
    /\ inflight[q].pc = "suspended"
    /\ caught(q)

-----------------------------------------------------------------------------
(* Initial state: the modules are loaded, no Controller or Router has been *)
(* constructed yet                                                         *)

Init ==
    /\ controllers = [c \in CtrlIds |-> NoController]
    /\ routers = [r \in RouterIds |-> NoRouter]
    /\ app = Constructed
    /\ err = NoError
    /\ env = "development"
    /\ res = FreshResponse
    /\ listening = FALSE
    /\ assembled = <<>>
    /\ inflight = NoFlights
    /\ runtime = NoRuntime

-----------------------------------------------------------------------------
(* Controller-level specification: one controller built by the 11 method   *)
(* operations                                                              *)

ControllerNames == {Str(<<"C">>)}

ControllerPaths == {Str(Root), Str(PA)}

ControllerMiddlewares == {Arr(<<>>), Arr(<<Fn("m1"), Fn("m2")>>)}

ControllerHandlers == {Fn("h1")}

NewController == \E c \in CtrlIds, name \in ControllerNames : Controller(c, name)

AddRoute ==
    \E c \in CtrlIds, path \in ControllerPaths,
       middlewares \in ControllerMiddlewares, handler \in ControllerHandlers :
        /\ Len(controllers[c].routes) < MaxRoutes
        /\ MethodOp(c, path, middlewares, handler)

NextController == NewController \/ AddRoute

SpecController == Init /\ [][NextController]_vars

\* what the middlewares do with next(): those of S either way, the others call it
Behaviours(S) ==
    { [id \in MwIds |-> IF id \in S THEN f[id] ELSE TRUE] : f \in [S -> BOOLEAN] }

\* the path of a request for a route: '' is served at '/'
RequestPath(path) == IF path.chars = <<>> THEN Root ELSE path.chars

RequestPaths == {Root, PA, PAB}

\* the request with route i's method and path ends with the route's
\* middlewares, in declaration order, and then its handler, called with the
\* response facade
RouteInvoked(c, i, nb) ==
    LET t  == controllers[c].routes[i]
        tr == ControllerTrace(c, t.method, RequestPath(t.path), nb)
        n  == Len(t.middlewares.items)
        at == Len(tr) - n - 1
    IN  /\ at >= 0
        /\ \A j \in 1..n : /\ tr[at + j].kind = "use"
                           /\ tr[at + j].fn = t.middlewares.items[j].id
        /\ tr[Len(tr)].kind = "route"
        /\ tr[Len(tr)].fn = t.handler.id
        /\ tr[Len(tr)].facade

\* C1 as stated: for every route added by a method operation, a request with
\* the route's method and path invokes the route's middlewares in declaration
\* order (each calling next()) and then the route's handler with the facade
C1_EveryRouteInvoked ==
    \A c \in CtrlIds : \A i \in DOMAIN controllers[c].routes :
        \A nb \in Behaviours(RouteMws) :
            (\A j \in DOMAIN controllers[c].routes[i].middlewares.items :
                nb[controllers[c].routes[i].middlewares.items[j].id])
            => RouteInvoked(c, i, nb)

\* C2 as stated: in a controller with two or more routes, a middleware of a
\* route is never invoked for a request whose path is not the route's path
C2_MiddlewareOnExactPath ==
    \A c \in CtrlIds :
        Len(controllers[c].routes) >= 2 =>
            \A i \in DOMAIN controllers[c].router :
                controllers[c].router[i].kind = "use" =>
                    \A method \in Methods, q \in RequestPaths, nb \in Behaviours(RouteMws) :
                        ~RouteMatch(controllers[c].router[i].path, q) =>
                            \A p \in DOMAIN ControllerTrace(c, method, q, nb) :
                                ControllerTrace(c, method, q, nb)[p].layer # i

-----------------------------------------------------------------------------
(* Validation specification: a Controller or a Router constructed and      *)
(* filled with well-formed and ill-formed arguments                        *)

Null == [type |-> "object", class |-> "null"]

Names == {Str(<<>>), Str(<<"N">>), Undefined}

PathArgs == {Str(Blank), Str(PA), Undefined}

MiddlewareArgs == {Arr(<<Fn("m1")>>), Null}

HandlerArgs == {Fn("h1"), Undefined}

ControllerArgs == {Instance("Controller", "c1"), Undefined}

\* Controller and Router share no state: the specification follows one
\* instance, a Controller or a Router, from its construction on
NewControllerV ==
    \E c \in CtrlIds, name \in Names :
        /\ \A r \in RouterIds : ~routers[r].live
        /\ Controller(c, name)

NewRouterV ==
    \E r \in {"r1"}, name \in Names :
        /\ \A c \in CtrlIds : ~controllers[c].live
        /\ Router(r, name)

AddRouteV ==
    \E c \in CtrlIds, path \in PathArgs, middlewares \in MiddlewareArgs,
       handler \in HandlerArgs :
        /\ MethodOp(c, path, middlewares, handler)
        /\ Len(controllers'[c].routes) <= MaxStored

AddBindingV ==
    \E r \in {"r1"}, path \in PathArgs, controller \in ControllerArgs,
       middlewares \in MiddlewareArgs :
        /\ Router_add(r, path, controller, middlewares)
        /\ Len(routers'[r].routes) <= MaxStored

NextValidation == NewControllerV \/ NewRouterV \/ AddRouteV \/ AddBindingV

SpecValidation == Init /\ [][NextValidation]_vars

\* a method operation called with these arguments in this step
Called(c, path, middlewares, handler) == MethodOp(c, path, middlewares, handler)

\* C5: a method operation called with a non-string path, a non-callable
\* handler or a non-array middleware list fails with that cause's error, the
\* three errors differ, and the controller is left as it was
C5_InvalidArgumentsRejected ==
    [][ \A c \in CtrlIds, path \in PathArgs, middlewares \in MiddlewareArgs,
          handler \in HandlerArgs :
            Called(c, path, middlewares, handler) =>
              /\ EPath # EHandler /\ EPath # EMiddlewares /\ EHandler # EMiddlewares
              /\ typeof(path) # "string" =>
                    err' = EPath /\ controllers'[c] = controllers[c]
              /\ (typeof(path) = "string" /\ typeof(handler) # "function") =>
                    err' = EHandler /\ controllers'[c] = controllers[c]
              /\ (typeof(path) = "string" /\ typeof(handler) = "function"
                    /\ ~isArray(middlewares)) =>
                    err' = EMiddlewares /\ controllers'[c] = controllers[c] ]_vars

\* C5 witness: a failed call on a controller that holds a route
C5_Witness ==
    /\ err \in {EPath, EHandler, EMiddlewares}
    /\ \E c \in CtrlIds : Len(controllers[c].routes) >= 1

StoredPathsAreStrings ==
    /\ \A c \in CtrlIds : \A i \in DOMAIN controllers[c].routes :
          typeof(controllers[c].routes[i].path) = "string"
    /\ \A r \in RouterIds : \A i \in DOMAIN routers[r].routes :
          typeof(routers[r].routes[i].path) = "string"

C7_EveryInstanceNamed ==
    /\ \A c \in CtrlIds : controllers[c].live =>
          typeof(controllers[c].name) = "string" /\ controllers[c].name.chars # <<>>
    /\ \A r \in RouterIds : routers[r].live =>
          typeof(routers[r].name) = "string" /\ routers[r].name.chars # <<>>

-----------------------------------------------------------------------------
(* Composition specification: a Controller and two Routers are built and   *)
(* mounted on the Server                                                   *)

\* an object that has a routes array and is not an instance of Router
PlainRouter ==
    [type |-> "object", class |-> "Object", id |-> "o1",
     routes |-> <<Binding(Str(PX), Instance("Controller", "c1"), Arr(<<Fn("gx")>>))>>]

\* an object that is not an instance of Controller
PlainController == [type |-> "object", class |-> "Object", id |-> "o2"]

BindingArgs ==
    { <<Str(PX), Instance("Controller", "c1"), Arr(<<Fn("g1"), Fn("g2")>>)>>,
      <<Str(Root), Instance("Controller", "c1"), Arr(<<>>)>>,
      <<Str(PX), PlainController, Arr(<<Fn("gx")>>)>> }

GlobalArgs == {Arr(<<Fn("a1"), Fn("a2")>>), Arr(<<Fn("a2")>>)}

RouterArgs ==
    { Arr(<<Instance("Router", "r1")>>),
      Arr(<<Instance("Router", "r1"), Instance("Router", "r2")>>),
      Arr(<<PlainRouter>>),
      Arr(<<Instance("Router", "r2"), PlainRouter>>) }

\* the instances a list names are constructed
Constructed_(list) ==
    \A i \in DOMAIN list.items :
        list.items[i].class = "Router" => routers[list.items[i].id].live

Bindings == Len(routers["r1"].routes) + Len(routers["r2"].routes)

NewControllerS == \E c \in CtrlIds : Controller(c, Str(<<"C">>))

NewRouterS == \E r \in RouterIds : Router(r, Str(<<"R">>))

AddRouteS ==
    \E c \in CtrlIds :
        /\ Len(controllers[c].routes) < MaxStored
        /\ get(c, Str(Root), Arr(<<Fn("m1")>>), Fn("h1"))

AddBindingS ==
    \E r \in RouterIds, b \in BindingArgs :
        /\ Bindings < MaxBindings
        /\ Router_add(r, b[1], b[2], b[3])

LoadMiddlewares ==
    \E middlewares \in GlobalArgs :
        /\ Len(app) - Len(Constructed) < MaxMounts
        /\ loadMiddlewares(middlewares)

LoadRouters ==
    \E list \in RouterArgs :
        /\ Len(app) - Len(Constructed) < MaxMounts
        /\ Constructed_(list)
        /\ loadRouters(list)

Next == NewControllerS \/ NewRouterS \/ AddRouteS \/ AddBindingS
           \/ LoadMiddlewares \/ LoadRouters

Spec == Init /\ [][Next]_vars

PXA == <<"/", "x", "/", "a">>

Requests == { Request(m, u, "curl") : m \in {"get", "post"}, u \in {Root, PA, PX, PXA} }

AllNext == [id \in MwIds |-> TRUE]

\* the binding a layer of the application was mounted from
BindingOf(L) == routers[L.origin.router].routes[L.origin.index]

\* the path a route is served at below a binding: the binding's path (a
\* binding at '/' or '' adds nothing) followed by the route's path
MountedPath(bindingPath, routePath) ==
    LET joined == (IF bindingPath = Root THEN <<>> ELSE bindingPath) \o routePath
    IN  IF joined = <<>> THEN Root ELSE joined

\* every route of the controller mounted at k is served at the binding's
\* path followed by the route's path
RoutesReachable(k) ==
    LET c == app[k].fn.id
    IN  \A i \in DOMAIN controllers[c].routes :
          LET t == controllers[c].routes[i]
              url == MountedPath(app[k].path, t.path.chars)
          IN  /\ UseMatch(app[k].path, url)
              /\ \E x \in DOMAIN controllers[c].router :
                    /\ controllers[c].router[x].kind = "route"
                    /\ controllers[c].router[x].fn = t.handler
                    /\ HandlesMethod(controllers[c].router[x].method, t.method)
                    /\ RouteMatch(controllers[c].router[x].path,
                                  StripPrefix(app[k].path, url))

BindingLayers(route, origin) ==
    [j \in 1..Len(route.middlewares.items) |->
        AppLayer("use", route.path.chars, route.middlewares.items[j], origin)]
    \o << AppLayer("mount", route.path.chars, route.controller, origin) >>

RECURSIVE RouterLayers(_, _, _)
RouterLayers(id, routes, i) ==
    IF i > Len(routes) THEN <<>>
    ELSE BindingLayers(routes[i], Origin(id, i)) \o RouterLayers(id, routes, i + 1)

\* the layers a list of routers declares, in declaration order
RECURSIVE DeclaredLayers(_)
DeclaredLayers(list) ==
    IF list = <<>> THEN <<>>
    ELSE RouterLayers(Head(list).id, RoutesOf(Head(list)), 1) \o DeclaredLayers(Tail(list))

GlobalLayers(items) ==
    [j \in 1..Len(items) |-> AppLayer("use", Root, items[j], NoOrigin)]

Mounted(stack, from) == SubSeq(stack, from + 1, Len(stack))

\* a request meets the layers of the application in the order of the stack
TraceInStackOrder ==
    \A req \in Requests, nb \in Behaviours({"a2", "g1", "m1"}) :
        LET tr == Trace(req, nb)
        IN  \A p, q \in DOMAIN tr : p < q => tr[p].app <= tr[q].app

\* C4: the application's stack is the concatenation, in call order, of what
\* each loadMiddlewares and loadRouters call mounts; a loadRouters call
\* mounts, in declaration order, each router's bindings (the binding's
\* middlewares, then its controller); a request meets them in that order
C4_MountSequence ==
    /\ [][\A mws \in GlobalArgs :
            loadMiddlewares(mws) => app' = app \o GlobalLayers(mws.items)]_vars
    /\ [][\A list \in RouterArgs :
            loadRouters(list) =>
              /\ IsPrefix(app, app')
              /\ IsPrefix(Mounted(app', Len(app)), DeclaredLayers(list.items))
              /\ (err' = NoError =>
                    Mounted(app', Len(app)) = DeclaredLayers(list.items))]_vars
    /\ []TraceInStackOrder

\* C4 witness: a global middleware mounted after a controller that was
\* itself mounted after a global middleware
C4_Witness ==
    \E i, j, k \in DOMAIN app :
        /\ Len(Constructed) < i /\ i < j /\ j < k
        /\ app[i].kind = "use" /\ app[i].origin = NoOrigin
        /\ app[j].kind = "mount"
        /\ app[k].kind = "use" /\ app[k].origin = NoOrigin

\* what stops a loadRouters call: the first element that is not a Router, or
\* the first Router with a binding whose controller is not a Controller
RECURSIVE Fault(_)
Fault(list) ==
    IF list = <<>> THEN "none"
    ELSE IF ~instanceof(Head(list), "Router") THEN "router"
    ELSE IF \E i \in DOMAIN RoutesOf(Head(list)) :
                ~instanceof(RoutesOf(Head(list))[i].controller, "Controller")
         THEN "controller"
    ELSE Fault(Tail(list))

FirstNonRouter(list) ==
    CHOOSE i \in DOMAIN list :
        /\ ~instanceof(list[i], "Router")
        /\ \A j \in 1..(i - 1) : instanceof(list[j], "Router")

\* C8: a loadRouters call that meets an element that is not a Router fails
\* with the not-a-Router error, and nothing of that element is ever mounted:
\* what the call mounted comes from the Routers before it
C8_NonRouterRejected ==
    /\ [][\A list \in RouterArgs :
            (loadRouters(list) /\ Fault(list.items) = "router") =>
              /\ err' = ENotRouter
              /\ \A k \in DOMAIN app' : k > Len(app) =>
                    \E x \in 1..(FirstNonRouter(list.items) - 1) :
                        app'[k].origin.router = list.items[x].id]_vars
    /\ [](\A k \in DOMAIN app : app[k].origin.router # PlainRouter.id)

\* C8 witness: a call failed with the not-a-Router error after it had mounted
\* the Router listed before the plain object
C8_Witness ==
    /\ err = ENotRouter
    /\ \E k \in DOMAIN app : app[k].origin.router = "r2"

\* C9: Router.add stores a binding whatever its controller is; loadRouters
\* fails with the not-a-Controller error at the first binding whose
\* controller is not a Controller, and no layer of the application ever comes
\* from such a binding
C9_ControllerCheckedAtMount ==
    /\ [][\A r \in RouterIds, b \in BindingArgs :
            Router_add(r, b[1], b[2], b[3]) =>
              /\ err' = NoError
              /\ routers'[r].routes =
                    Append(routers[r].routes, Binding(b[1], b[2], b[3]))]_vars
    /\ [][\A list \in RouterArgs :
            (loadRouters(list) /\ Fault(list.items) = "controller") =>
              err' = ENotController]_vars
    /\ [](\A k \in DOMAIN app : app[k].origin # NoOrigin =>
            /\ instanceof(BindingOf(app[k]).controller, "Controller")
            /\ app[k].fn # PlainController)

\* C9 witness: a Router holds a binding to a plain object and the mount of
\* that Router failed with the not-a-Controller error
C9_Witness ==
    /\ err = ENotController
    /\ \E r \in RouterIds : routers[r] # NoRouter /\
          \E i \in DOMAIN routers[r].routes :
              routers[r].routes[i].controller = PlainController

-----------------------------------------------------------------------------
(* Response specification: handlers answer requests through the facade, in *)
(* a process started with some NODE_ENV                                    *)

Environments == {"production", "development", "test"}

CodeArgs ==
    {Num(n) : n \in StatusCodes}
        \cup {Num(424242), Str(<<"o", "k">>), Str(<<"1", "0", "0", "0">>),
              Str(<<"t", "o", "S", "t", "r", "i", "n", "g">>)}

PayloadArgs ==
    { Obj(<<"a">>, <<Num(1)>>), Str(<<"h", "i">>), Null, Undefined,
      Obj(<<"hello">>, <<Str(<<"w">>)>>) }

InitResponse ==
    /\ controllers = [c \in CtrlIds |-> NoController]
    /\ routers = [r \in RouterIds |-> NoRouter]
    /\ app = Constructed
    /\ err = NoError
    /\ env \in Environments
    /\ res = FreshResponse
    /\ listening = FALSE
    /\ assembled = <<>>
    /\ inflight = NoFlights
    /\ runtime = NoRuntime

Json == \E code \in CodeArgs, payload \in PayloadArgs : json(code, payload)

BodyArgs == {Str(<<"h", "i">>), Str(<<>>), Str(<<"<", "b", ">">>)}

Text == \E body \in BodyArgs : text(body)

Html == \E body \in BodyArgs : html(body)

Xml == \E body \in BodyArgs : xml(body)

NextResponse ==
    Json \/ Text \/ Html \/ Xml \/ created \/ badRequest \/ unauthorized
        \/ paymentRequired \/ forbidden \/ notFound \/ conflict
        \/ tooManyRequests \/ Arrive

SpecResponse == InitResponse /\ [][NextResponse]_vars

Quoted(name) == <<"\"", name, "\"">>

\* the text of {status: {code, message}, data: payload}
Envelope(n, message, payload) ==
    <<"{">> \o Quoted("status") \o <<":", "{">>
        \o Quoted("code") \o <<":", ToString(n), ",">>
        \o Quoted("message") \o <<":">>
        \o (IF message = "" THEN <<"\"", "\"">> ELSE Quoted(message)) \o <<"}">>
        \o (IF payload = Undefined THEN <<>>
            ELSE <<",">> \o Quoted("data") \o <<":">> \o stringify(payload))
        \o <<"}">>

\* C10: for every code of the status table and every payload, json(code,
\* payload) sends status 200, Content-Type application/json and the text of
\* {status: {code, message}, data: payload}; message is the table's text
\* outside production and the empty string in production, code is the
\* given code in both
C10_JsonEnvelope ==
    [][\A n \in StatusCodes, payload \in PayloadArgs :
          json(Num(n), payload) =>
            /\ err' = NoError
            /\ res'.sent
            /\ res'.status = 200
            /\ <<"Content-Type", "application/json">> \in res'.headers
            /\ \A h \in res'.headers :
                  h[1] = "Content-Type" => h[2] = "application/json"
            /\ res'.body =
                  Envelope(n, IF env = "production" THEN "" ELSE StatusText(n), payload)]_vars

\* the response after an operation wrote exactly a status, a content type and
\* a body to the response r and completed it
Written(r, type, code, body) ==
    [headers |-> {h \in r.headers : h[1] # "Content-Type"} \cup {<<"Content-Type", type>>},
     status |-> code, body |-> body, sent |-> TRUE]

\* C20: text, html and xml send 200 with text/plain, text/html and
\* application/xml and the given body; badRequest, unauthorized,
\* paymentRequired, forbidden, notFound, conflict and tooManyRequests send
\* 400, 401, 402, 403, 404, 409 and 429 with text/plain and their reason
\* phrase; each writes exactly that and completes the response
C20_FixedReplies ==
    /\ [][\A body \in BodyArgs :
            /\ text(body) => res' = Written(res, "text/plain", 200, body.chars)
            /\ html(body) => res' = Written(res, "text/html", 200, body.chars)
            /\ xml(body)  => res' = Written(res, "application/xml", 200, body.chars)]_vars
    /\ [][/\ badRequest => res' = Written(res, "text/plain", 400, <<"Bad Request">>)
          /\ unauthorized => res' = Written(res, "text/plain", 401, <<"Unauthorized">>)
          /\ paymentRequired => res' = Written(res, "text/plain", 402, <<"Payment Required">>)
          /\ forbidden => res' = Written(res, "text/plain", 403, <<"Forbidden">>)
          /\ notFound => res' = Written(res, "text/plain", 404, <<"Not Found">>)
          /\ conflict => res' = Written(res, "text/plain", 409, <<"Conflict">>)
          /\ tooManyRequests =>
                res' = Written(res, "text/plain", 429, <<"Too Many Requests">>)]_vars

\* C20 witness: a request answered 429 Too Many Requests as plain text
C20_Witness ==
    /\ res.sent
    /\ res.status = 429
    /\ res.body = <<"Too Many Requests">>
    /\ <<"Content-Type", "text/plain">> \in res.headers

\* C21 as stated: created() completes the response with status 201 and an
\* empty body
C21_CreatedEmpty ==
    [][created => res'.sent /\ res'.status = 201 /\ res'.body = <<>>]_vars

\* C21 amended: created() completes the response with status 201,
\* Content-Type text/plain and the reason phrase 'Created' as body, like the
\* other fixed-status operations
C21_CreatedReply ==
    [][created => res' = Written(res, "text/plain", 201, <<"Created">>)]_vars

\* C21 witness: a request answered 201 with the body 'Created'
C21_Witness ==
    /\ res.sent
    /\ res.status = 201
    /\ res.body = <<"Created">>

\* a code the status table declares
InCatalog(code) == typeof(code) = "number" /\ code.n \in StatusCodes

\* C11 as stated: json called with a code that is not in the status table
\* fails with the unknown-status-code error and leaves the transport
\* response exactly as it was: no header, no status, no body
C11_UnknownCodeWritesNothing ==
    [][\A code \in CodeArgs, payload \in PayloadArgs :
          (json(code, payload) /\ ~InCatalog(code)) =>
              err' = EStatus /\ res' = res]_vars

\* C12 as stated: the lookup fails with the unknown-status-code error for
\* every argument that is not a declared code, in every environment, and
\* returns a {code, message} pair only for declared codes
C12_ClosedCatalog ==
    [][\A code \in CodeArgs, payload \in PayloadArgs :
          json(code, payload) =>
              /\ Status(code, env).thrown <=> ~InCatalog(code)
              /\ err' = EStatus <=> ~InCatalog(code)]_vars

\* C10 witness: json(1000, {a: 1}) was answered in production with an empty
\* message
C10_Witness ==
    /\ env = "production"
    /\ res.sent
    /\ res.status = 200
    /\ res.body = Envelope(1000, "", Obj(<<"a">>, <<Num(1)>>))

-----------------------------------------------------------------------------
(* Server specification: one Server assembled by the mounting operations   *)
(* and started, serving requests with and without the probe's User-Agent   *)

Mounts == Len(app) - Len(Constructed)

NewRouterT == Router("r1", Str(<<"R">>))

AddBindingT ==
    /\ Len(routers["r1"].routes) < MaxStored
    /\ Router_add("r1", Str(PX), Instance("Controller", "c1"), Arr(<<Fn("g1")>>))

LoadMiddlewaresT ==
    /\ Mounts < MaxMounts
    /\ loadMiddlewares(Arr(<<Fn("a2")>>))

LoadRoutersT ==
    /\ Mounts < MaxMounts
    /\ routers["r1"].live
    /\ loadRouters(Arr(<<Instance("Router", "r1")>>))

IncludeBodyParsers == Mounts < MaxMounts /\ includeDefaultBodyParsers

IncludeSecurityHeaders == Mounts < MaxMounts /\ includeDefaultSecurityHeaders

Run == run

NextServer ==
    NewControllerS \/ AddRouteS \/ NewRouterT \/ AddBindingT \/ LoadMiddlewaresT
        \/ LoadRoutersT \/ IncludeBodyParsers \/ IncludeSecurityHeaders \/ Run

SpecServer == Init /\ [][NextServer]_vars

ServerRequests ==
    { QueryRequest(m, u, q, a) :
        m \in {"get", "post"}, u \in {Root, PX, HealthUrl},
        q \in {<<>>, <<"v">>}, a \in {"curl", ProbeAgent} }

ServerBehaviours == Behaviours({"a2", "g1"})

\* an invocation of one of the constructor's three middlewares
BuiltIn(ev) == ev.layer = 0 /\ ev.app <= Len(Constructed)

\* C13 as stated: every GET request to /_health is answered 200 with status
\* "UP" and no user-supplied middleware or controller is invoked for it,
\* whatever was mounted and whatever the mounted middlewares do
C13_HealthAlwaysUp ==
    \A req \in ServerRequests, nb \in ServerBehaviours :
        (req.method = "get" /\ req.url = HealthUrl) =>
            /\ Respond(req, nb).status = 200
            /\ Respond(req, nb).body = HealthBody
            /\ \A p \in DOMAIN Trace(req, nb) : BuiltIn(Trace(req, nb)[p])

\* C14 as stated: the health check is the first entry of the mount sequence,
\* and for a request to /_health nothing runs before it
C14_HealthCheckFirst ==
    /\ app[1].fn = Fn("health")
    /\ \A req \in ServerRequests, nb \in ServerBehaviours :
          OriginalUrl(req) = HealthUrl => Trace(req, nb)[1].fn = "health"

C16_EveryResponseStamped ==
    \A req \in ServerRequests, nb \in ServerBehaviours :
        Respond(req, nb).sent =>
            /\ \E h \in Respond(req, nb).headers : h[1] = "X-Neo-Beach"
            /\ \E h \in Respond(req, nb).headers : h[1] = "X-Neo-Beach-Core"

-----------------------------------------------------------------------------
(* Concurrency specification: two requests in flight, their handlers       *)
(* suspending and resuming in any interleaving                             *)

InvokeF == \E q \in FlightIds : Invoke(q)

SuspendF == \E q \in FlightIds : Suspend(q)

ResumeF == \E q \in FlightIds : Resume(q)

TerminalF == \E q \in FlightIds, op \in TerminalOps : Terminal(q, op)

FinishF == \E q \in FlightIds : Finish(q)

NextFlight == InvokeF \/ SuspendF \/ ResumeF \/ TerminalF \/ FinishF

SpecFlight == InitResponse /\ [][NextFlight]_vars

\* C17: every handler invocation gets a facade made for it, which wraps the
\* transport response of its own request; in any interleaving of two
\* requests, a terminal operation a handler calls writes to the response of
\* that handler's request and leaves the other request as it was
C17_OwnFacade ==
    /\ [](\A q \in FlightIds : inflight[q].pc # "none" => inflight[q].facade = q)
    /\ [][\A q \in FlightIds, op \in TerminalOps :
            Terminal(q, op) =>
              /\ inflight'[q].res = TerminalOp(inflight[q].res, op)
              /\ \A o \in FlightIds \ {q} : inflight'[o] = inflight[o]]_vars

\* C17 witness: the second request was answered while the first one's
\* handler is suspended, and the first one's response is untouched
C17_Witness ==
    /\ inflight["q1"].pc = "suspended"
    /\ inflight["q1"].res = FreshResponse
    /\ inflight["q2"].pc = "answered"
    /\ inflight["q2"].res.sent

\* the layers of a kind in a controller's sub-tree
LayersOf(c, kind) == SelectSeq(controllers[c].router, LAMBDA L : L.kind = kind)

RECURSIVE CountMiddlewares(_)
CountMiddlewares(routes) ==
    IF routes = <<>> THEN 0
    ELSE Len(Head(routes).middlewares.items) + CountMiddlewares(Tail(routes))

\* C18: getRouter returns the controller's sub-tree and changes nothing: a
\* second call returns the same sub-tree, a loadRouters call, which calls it
\* for every binding it mounts, leaves every controller as it was, and the
\* sub-tree always holds one handler per route and one layer per middleware
\* of the routes list
C18_GetRouterIdempotent ==
    /\ [](\A c \in CtrlIds :
            LET once == getRouter(controllers[c], Str(<<"R">>))
                twice == getRouter(once.self, Str(<<"R">>))
            IN  /\ once.value = controllers[c].router
                /\ twice.value = once.value
                /\ twice.self = controllers[c]
                /\ Len(LayersOf(c, "route")) = Len(controllers[c].routes)
                /\ Len(LayersOf(c, "use")) = CountMiddlewares(controllers[c].routes))
    /\ [][loadRouters(Arr(<<Instance("Router", "r1")>>)) => controllers' = controllers]_vars

\* C18 witness: a controller with a route whose sub-tree is mounted twice
C18_Witness ==
    \E j, k \in DOMAIN app :
        /\ j < k
        /\ app[j].kind = "mount" /\ app[k].kind = "mount"
        /\ app[j].fn = app[k].fn
        /\ Len(controllers[app[j].fn.id].routes) = 1
        /\ Len(LayersOf(app[j].fn.id, "route")) = 1

-----------------------------------------------------------------------------
(* Runtime specification: a process started through Runtime(sandbox); the  *)
(* sandbox starts the Server, whose handlers answer, suspend, throw or are *)
(* rejected                                                                *)

\* the registry's latest version when it is not the installed one
NewerVersion == "2.4.0"

Hosts ==
    { Host(skip, internet, node, registry, latest) :
        skip \in {"", "true"}, internet \in BOOLEAN, node \in {14, 18},
        registry \in {200, 503}, latest \in {CoreVersion, NewerVersion} }

InitRuntime ==
    /\ controllers = [c \in CtrlIds |-> NoController]
    /\ routers = [r \in RouterIds |-> NoRouter]
    /\ app = Constructed
    /\ err = NoError
    /\ env \in Environments
    /\ res = FreshResponse
    /\ listening = FALSE
    /\ assembled = <<>>
    /\ inflight = NoFlights
    /\ runtime \in {[NoRuntime EXCEPT !.host = h] : h \in Hosts}

Serving == runtime.pc = "running" /\ listening

RunR == runtime.pc = "running" /\ run

InvokeR == \E q \in FlightIds : Serving /\ Invoke(q)

SuspendR == \E q \in FlightIds : Serving /\ Suspend(q)

ResumeR == \E q \in FlightIds : Serving /\ Resume(q)

TerminalR == \E q \in FlightIds, op \in TerminalOps : Serving /\ Terminal(q, op)

FinishR == \E q \in FlightIds : Serving /\ Finish(q)

HandlerThrows == \E q \in FlightIds : handlerThrows(q)

HandlerRejects == \E q \in FlightIds : handlerRejects(q)

NextRuntime ==
    Runtime \/ preflight \/ sandbox \/ RunR \/ InvokeR \/ SuspendR \/ ResumeR
        \/ TerminalR \/ FinishR \/ HandlerThrows \/ HandlerRejects
        \/ unhandledRejection \/ uncaughtException

SpecRuntime == InitRuntime /\ [][NextRuntime]_vars

\* C22 as stated: an exception a handler or middleware throws, and a
\* rejection it does not catch after suspending, is logged by Runtime and
\* ends the process with a non-zero exit code, and an exited process serves
\* no further request
C22_FailureTerminates ==
    /\ [][\A q \in FlightIds :
            (handlerThrows(q) \/ handlerRejects(q)) =>
              /\ runtime'.pc = "exited"
              /\ runtime'.exit > 0
              /\ runtime'.log \cap {EUnhandledRejection, EUncaughtException} # {}]_vars
    /\ [][runtime.pc = "exited" => inflight' = inflight]_vars

\* C25 as stated: in a process started with SKIP_UPGRADE_CHECK 'true',
\* preflight makes no request to the registry and prints no warning before
\* the sandbox starts
C25_UpgradeCheckSkipped ==
    runtime.host.skip = "true" => ~runtime.fetched /\ ~runtime.warned

-----------------------------------------------------------------------------
(* Registration specification: one Controller filled through get and post, *)
(* or one Router filled through add, with lists that are well formed, ill  *)
(* formed, or hold an element that is not a function                       *)

RegMethods == {"get", "post"}

RegPaths == {Str(Root), Str(PA)}

RegHandlers == {Fn("h1"), Fn("h2")}

RegMiddlewares == {Arr(<<Fn("m1")>>), Arr(<<Fn("m1"), Undefined>>)}

\* the layers a controller's router may hold in this specification
MaxLayers == 2 * MaxRoutes + 1

NewControllerR ==
    /\ \A r \in RouterIds : ~routers[r].live
    /\ Controller("c1", Str(<<"C">>))

AddRouteR ==
    \E path \in RegPaths, middlewares \in RegMiddlewares, handler \in RegHandlers :
        /\ Len(controllers["c1"].routes) < MaxRoutes
        /\ Len(controllers["c1"].router) + Len(middlewares.items) <= MaxLayers
        /\ \/ get("c1", path, middlewares, handler)
           \/ post("c1", path, middlewares, handler)

NewRouterR ==
    /\ \A c \in CtrlIds : ~controllers[c].live
    /\ Router("r1", Str(<<"R">>))

RegBindingPaths == {Str(PX), Undefined}

RegBindingMiddlewares == {Undefined, Arr(<<Fn("g1")>>), Null}

AddBindingR ==
    \E path \in RegBindingPaths, controller \in ControllerArgs,
       middlewares \in RegBindingMiddlewares :
        /\ Len(routers["r1"].routes) < MaxBindings
        /\ Router_add("r1", path, controller, middlewares)

NextRegistration == NewControllerR \/ AddRouteR \/ NewRouterR \/ AddBindingR

SpecRegistration == Init /\ [][NextRegistration]_vars

\* every element of the list is a function
AllFunctions(middlewares) ==
    \A j \in DOMAIN middlewares.items : typeof(middlewares.items[j]) = "function"

\* the layers a successful call registers: its middlewares, then its handler
RouteLayers(method, path, handler, middlewares) ==
    [j \in 1..Len(middlewares.items) |->
        Layer("use", "*", path.chars, middlewares.items[j], FALSE)]
    \o << Layer("route", method, path.chars, handler, TRUE) >>

\* C23: a method operation called with a method and path the controller
\* already holds succeeds: it appends its entry to the routes list, after
\* the earlier ones, and registers its middlewares and handler in the
\* internal router after the earlier ones; the internal router holds one
\* handler per entry of the routes list, in the order of the calls
C23_TwiceAddsTwo ==
    /\ [][\A method \in RegMethods, path \in RegPaths, handler \in RegHandlers,
             middlewares \in RegMiddlewares :
               ( /\ add("c1", method, path, handler, middlewares)
                 /\ AllFunctions(middlewares)
                 /\ \E i \in DOMAIN controllers["c1"].routes :
                       /\ controllers["c1"].routes[i].method = method
                       /\ controllers["c1"].routes[i].path = path )
               => /\ err' = NoError
                  /\ controllers'["c1"].routes =
                        Append(controllers["c1"].routes,
                               RouteEntry(method, path, handler, middlewares))
                  /\ controllers'["c1"].router =
                        controllers["c1"].router
                            \o RouteLayers(method, path, handler, middlewares)]_vars
    /\ [](LET handlers == LayersOf("c1", "route")
              routes == controllers["c1"].routes
          IN  /\ Len(handlers) = Len(routes)
              /\ \A i \in DOMAIN routes :
                    /\ handlers[i].fn = routes[i].handler
                    /\ handlers[i].method = routes[i].method
                    /\ handlers[i].path = routes[i].path.chars)

\* C23 witness: two entries with the same method and path and different
\* handlers, both handlers registered
C23_Witness ==
    /\ err = NoError
    /\ Len(controllers["c1"].routes) = 2
    /\ controllers["c1"].routes[1].method = controllers["c1"].routes[2].method
    /\ controllers["c1"].routes[1].path = controllers["c1"].routes[2].path
    /\ controllers["c1"].routes[1].handler = Fn("h1")
    /\ controllers["c1"].routes[2].handler = Fn("h2")
    /\ LayersOf("c1", "route")[1].fn = Fn("h1")
    /\ LayersOf("c1", "route")[2].fn = Fn("h2")

\* C24: Router.add with a string path and an array of middlewares, or none
\* given, appends exactly the binding {path, controller, middlewares} (the
\* empty list when none was given) after the bindings the router holds,
\* which stay as they were; with a path that is not a string it fails with
\* the invalid-path error, with a list that is not an array with the
\* invalid-list error, and the bindings stay as they were
C24_AddAppendsOneBinding ==
    [][\A path \in RegBindingPaths, controller \in ControllerArgs,
         middlewares \in RegBindingMiddlewares :
           Router_add("r1", path, controller, middlewares) =>
             IF typeof(path) # "string"
             THEN err' = ERoutePath /\ routers'["r1"] = routers["r1"]
             ELSE IF ~(middlewares = Undefined \/ isArray(middlewares))
             THEN err' = ERouteMiddlewares /\ routers'["r1"] = routers["r1"]
             ELSE /\ err' = NoError
                  /\ Len(routers'["r1"].routes) = Len(routers["r1"].routes) + 1
                  /\ \A i \in DOMAIN routers["r1"].routes :
                        routers'["r1"].routes[i] = routers["r1"].routes[i]
                  /\ routers'["r1"].routes[Len(routers'["r1"].routes)] =
                        [path |-> path, controller |-> controller,
                         middlewares |-> IF middlewares = Undefined
                                         THEN Arr(<<>>) ELSE middlewares]]_vars

\* C24 witness: a router with two bindings, the second added without a
\* middleware list after the first
C24_Witness ==
    /\ err = NoError
    /\ Len(routers["r1"].routes) = 2
    /\ routers["r1"].routes[1].middlewares = Arr(<<Fn("g1")>>)
    /\ routers["r1"].routes[2].middlewares = Arr(<<>>)

\* the number of layers the routes before route i registered
RECURSIVE LayersBefore(_, _)
LayersBefore(routes, i) ==
    IF i <= 1 THEN 0
    ELSE LayersBefore(routes, i - 1) + Len(routes[i - 1].middlewares.items) + 1

\* the layers of the internal router that hold the middlewares of route i
MiddlewareLayers(routes, i) ==
    (LayersBefore(routes, i) + 1) .. (LayersBefore(routes, i) + Len(routes[i].middlewares.items))

\* C26 as stated: for two routes of a controller with the same path and
\* different methods, a request with the method of one never invokes a
\* middleware declared on the other
C26_MiddlewareOnOwnMethod ==
    \A c \in CtrlIds : \A i, j \in DOMAIN controllers[c].routes :
        LET routes == controllers[c].routes
        IN  ( /\ routes[i].path = routes[j].path
              /\ ~HandlesMethod(routes[i].method, routes[j].method) )
            => \A nb \in Behaviours(RouteMws) :
                 LET tr == ControllerTrace(c, routes[j].method, RequestPath(routes[j].path), nb)
                 IN  \A p \in DOMAIN tr : tr[p].layer \notin MiddlewareLayers(routes, i)

\* C27 as stated: a loadRouters call that fails, because an element of the
\* list is not a Router or a binding's controller is not a Controller,
\* leaves the mount sequence as it was before the call
C27_LoadRoutersAllOrNothing ==
    [][\A list \in RouterArgs :
          (loadRouters(list) /\ err' \in {ENotRouter, ENotController}) => app' = app]_vars

\* the layers the entries of a routes list declare, in order
RECURSIVE LayersOfRoutes(_)
LayersOfRoutes(routes) ==
    IF routes = <<>> THEN <<>>
    ELSE RouteLayers(Head(routes).method, Head(routes).path, Head(routes).handler,
                     Head(routes).middlewares)
         \o LayersOfRoutes(Tail(routes))

\* C28 as stated: after any sequence of method calls, successful or failed,
\* the internal router holds exactly the middlewares and handlers of the
\* entries of the routes list, in the same order
C28_RouterMatchesRoutes ==
    \A c \in CtrlIds : controllers[c].router = LayersOfRoutes(controllers[c].routes)

-----------------------------------------------------------------------------
(* Dispatch specification: a Controller holding up to MaxRoutes handlers   *)
(* for GET /, bound by a Router below /x or below /_health and mounted,    *)
(* possibly several times, next to a global middleware                     *)

AddRouteD ==
    \E handler \in RegHandlers :
        /\ Len(controllers["c1"].routes) < MaxRoutes
        /\ get("c1", Str(Root), Arr(<<Fn("m1")>>), handler)

AddBindingD ==
    \E path \in {Str(PX), Str(HealthUrl)} :
        /\ Len(routers["r1"].routes) < MaxStored
        /\ Router_add("r1", path, Instance("Controller", "c1"), Arr(<<Fn("g1")>>))

NextDispatch ==
    NewControllerS \/ AddRouteD \/ NewRouterT \/ AddBindingD \/ LoadMiddlewaresT
        \/ LoadRoutersT

SpecDispatch == Init /\ [][NextDispatch]_vars

\* /_health with a trailing segment
HealthSlash == HealthUrl \o Root

DispatchRequests ==
    { QueryRequest(m, u, q, a) :
        m \in {"get", "post"}, u \in {Root, PX, HealthUrl, HealthSlash},
        q \in {<<>>, <<"v">>}, a \in {"curl", ProbeAgent} }

DispatchBehaviours == Behaviours({"a2", "g1", "m1"})

\* the handler in layer i of the controller mounted at k answers the request
Answers(k, i, req) ==
    /\ app[k].kind = "mount"
    /\ UseMatch(app[k].path, req.url)
    /\ i \in DOMAIN controllers[app[k].fn.id].router
    /\ LET L == controllers[app[k].fn.id].router[i]
       IN  /\ L.kind = "route"
           /\ RouteMatch(L.path, StripPrefix(app[k].path, req.url))
           /\ HandlesMethod(L.method, req.method)

\* C29: a request invokes at most one route handler, and nothing after it:
\* the handler is the last invocation of the request; and the handler
\* invoked is the first one, in mount order and then in registration order,
\* that is registered for the request's method and path, so a handler
\* registered again for the same method and path, in the controller or
\* through a later binding, is never invoked
C29_OneHandlerPerRequest ==
    \A req \in DispatchRequests, nb \in DispatchBehaviours :
        LET tr == Trace(req, nb)
        IN  \A p \in DOMAIN tr :
              tr[p].kind = "route" =>
                /\ p = Len(tr)
                /\ Answers(tr[p].app, tr[p].layer, req)
                /\ \A k \in 1..tr[p].app :
                      \A i \in 1..(IF k = tr[p].app THEN tr[p].layer - 1
                                    ELSE IF app[k].kind = "mount"
                                    THEN Len(controllers[app[k].fn.id].router)
                                    ELSE 0) :
                          ~Answers(k, i, req)

\* C29 witness: a controller with two handlers for GET /, mounted twice
\* below /x; GET /x invokes the first handler of the first mount
C29_Witness ==
    /\ Len(controllers["c1"].routes) = 2
    /\ controllers["c1"].routes[1].handler = Fn("h1")
    /\ controllers["c1"].routes[2].handler = Fn("h2")
    /\ \E j, k \in DOMAIN app :
          /\ j < k
          /\ app[j].kind = "mount" /\ app[k].kind = "mount"
          /\ app[j].path = PX /\ app[k].path = PX
          /\ LET tr == Trace(QueryRequest("get", PX, <<>>, "curl"), AllNext)
             IN  /\ tr # <<>>
                 /\ tr[Len(tr)].kind = "route"
                 /\ tr[Len(tr)].fn = "h1"
                 /\ tr[Len(tr)].app = j

\* the user-supplied middlewares of the mount sequence that match a request
UserMiddlewares(req) ==
    { k \in DOMAIN app : /\ k > Len(Constructed)
                          /\ app[k].kind = "use"
                          /\ UseMatch(app[k].path, req.url) }

Least(S) == CHOOSE k \in S : \A j \in S : k <= j

\* C30: for a request that is not a probe, whatever its method: when the
\* original URL is exactly /_health the health check answers 200 with the
\* vitals and nothing the user mounted is invoked, a route at /_health
\* included; when it is anything else (/_health with a query string or a
\* trailing segment included) the health check writes nothing and the
\* request goes on to the first user mount that matches it
C30_HealthExactUrl ==
    \A req \in DispatchRequests, nb \in DispatchBehaviours :
        req.agent # ProbeAgent =>
            LET tr == Trace(req, nb)
                out == Respond(req, nb)
            IN  /\ Len(tr) >= 3 /\ tr[3].fn = "health" /\ tr[3].app = 3
                /\ OriginalUrl(req) = HealthUrl =>
                      /\ Len(tr) = 3
                      /\ out.sent /\ out.status = 200 /\ out.body = HealthBody
                /\ OriginalUrl(req) # HealthUrl =>
                      /\ out.body # HealthBody
                      /\ ApplyTrace(SubSeq(tr, 1, 3), req, nb, FreshResponse).sent = FALSE
                      /\ UserMiddlewares(req) # {} =>
                            /\ Len(tr) >= 4
                            /\ tr[4].app = Least(UserMiddlewares(req))

\* C30 witness: a controller with a route is mounted below /_health; GET and
\* POST /_health get the vitals, /_health?v and /_health/ get the route's
\* answer
C30_Witness ==
    /\ \E k \in DOMAIN app :
          /\ app[k].kind = "mount" /\ app[k].path = HealthUrl
          /\ controllers[app[k].fn.id].routes # <<>>
    /\ Respond(QueryRequest("get", HealthUrl, <<>>, "curl"), AllNext).body = HealthBody
    /\ Respond(QueryRequest("post", HealthUrl, <<>>, "curl"), AllNext).body = HealthBody
    /\ Respond(QueryRequest("get", HealthUrl, <<"v">>, "curl"), AllNext).body = <<"handled">>
    /\ Respond(QueryRequest("get", HealthSlash, <<>>, "curl"), AllNext).body = <<"handled">>

====
